---- MODULE Spec2Model ----
(***************************************************************************)
(* AI Image Fusion: the App component (image intake, submission) and the   *)
(* mergeImagesWithAI service, as a state machine.                          *)
(*                                                                         *)
(* Strings are sequences of tokens, so that building a data URI and        *)
(* splitting it again at the comma are real operations.  React state is    *)
(* the five useState cells of App; a handler runs to completion (or to     *)
(* its first await) in one step and the component is re-rendered before    *)
(* the next event, so handlers always close over the current state.        *)
(***************************************************************************)
EXTENDS Integers, Sequences, FiniteSets

VARIABLES
    uploadedImages,    \* useState<UploadedImage[]>([])
    backgroundPrompt,  \* useState<string>('')
    isLoading,         \* useState<boolean>(false)
    error,             \* useState<string | null>(null)
    generatedResult,   \* useState<GeneratedResult | null>(null)
    batches,           \* handleFileChange invocations whose FileReaders are still reading
    runs               \* handleSubmit invocations suspended at their await

vars == <<uploadedImages, backgroundPrompt, isLoading, error, generatedResult, batches, runs>>

\* null or undefined, where a string is expected and where an object is
Null == <<"null">>
NullObject == [null |-> TRUE]

(***************************************************************************)
(* Bounds of the model.                                                    *)
(***************************************************************************)
\* files in one selection
MaxBatchLen == 2
\* FileReaders reading at the same time
MaxReaders == 2
\* parts in one response of the service
MaxParts == 3
\* handleSubmit invocations suspended at the same time, when the handler is
\* invoked directly
MaxRuns == 2

(***************************************************************************)
(* Program constants.                                                      *)
(***************************************************************************)
MaxUpload == 5
MinImages == 2

\* The user stops selecting files once this many are stored or being read:
\* one past the cap when intake is explored alone, one more than a
\* submission needs when the whole component is explored, and just what a
\* submission needs where liveness is checked.
IntakeLimit == MaxUpload + 1
AppLimit == MinImages + 1
FairLimit == MinImages

allowedTypes == {"image/jpeg", "image/png", "image/webp"}

(***************************************************************************)
(* Inputs: the files the user can select, the values Date.now() returns    *)
(* while a batch is read, the prompts that can be typed.                   *)
(***************************************************************************)
\* a readable image, an empty image file (its data URI has no base64 data)
\* and a file of a type that is not allowed
Files ==
    { [name |-> "a.png", type |-> "image/png",  bytes |-> <<"Q", "Q">>],
      [name |-> "c.jpg", type |-> "image/jpeg", bytes |-> <<>>],
      [name |-> "b.gif", type |-> "image/gif",  bytes |-> <<"R">>] }

\* Reads complete within one tick of the clock, so records of files of the
\* same name get the same id, as `${file.name}-${Date.now()}` gives them.
Times == {1}

Prompts == { <<>>, <<" ">>, <<" ", "x">> }

\* the sequences over S of length up to n
SeqsUpTo(S, n) == UNION { [1..m -> S] : m \in 0..n }

FileLists == SeqsUpTo(Files, MaxBatchLen)

(***************************************************************************)
(* Strings.                                                                *)
(***************************************************************************)
\* `data:${mimeType};base64,${data}`
DataURI(mimeType, data) == <<"data:", mimeType, ";base64", ",">> \o data

\* FileReader.readAsDataURL: the file's bytes, base64-encoded token by token
ReadAsDataURL(file) == DataURI(file.type, file.bytes)

RECURSIVE SplitAt(_, _)
\* s.split(sep): the fields of s between occurrences of sep
SplitAt(s, sep) ==
    IF \A i \in 1..Len(s) : s[i] # sep THEN << s >>
    ELSE LET k == CHOOSE i \in 1..Len(s) : s[i] = sep /\ \A j \in 1..(i - 1) : s[j] # sep
         IN  << SubSeq(s, 1, k - 1) >> \o SplitAt(SubSeq(s, k + 1, Len(s)), sep)

\* img.base64.split(',')[1]  (undefined when there is no second field)
Base64Data(base64) ==
    LET fields == SplitAt(base64, ",")
    IN  IF Len(fields) >= 2 THEN fields[2] ELSE Null

\* !base64Data : undefined or the empty string
Falsy(s) == s = Null \/ s = <<>>

RECURSIVE TrimLeft(_)
TrimLeft(s) == IF s # <<>> /\ Head(s) = " " THEN TrimLeft(Tail(s)) ELSE s

RECURSIVE TrimRight(_)
TrimRight(s) ==
    IF s # <<>> /\ s[Len(s)] = " " THEN TrimRight(SubSeq(s, 1, Len(s) - 1)) ELSE s

\* String.prototype.trim
Trim(s) == TrimRight(TrimLeft(s))

(***************************************************************************)
(* Image intake.                                                           *)
(***************************************************************************)
CapMessage == <<"You can upload a maximum of 5 images.">>
TypeMessage(type) ==
    <<"File type ", type, " is not supported. Please use JPG, PNG, or WEBP.">>

\* The test at the head of the forEach callback for files[i].  The onload
\* callbacks run only after the handler has returned, so newImages is still
\* empty for every file of the loop.
CapReached(newImages) == Len(uploadedImages) + Len(newImages) >= MaxUpload

TypeAllowed(file) == file.type \in allowedTypes

\* the files of the selection for which a FileReader is started
Accepted(files) ==
    { i \in 1..Len(files) : ~CapReached(<<>>) /\ TypeAllowed(files[i]) }

RECURSIVE SetErrorCalls(_, _)
\* the setError calls the forEach loop makes, in order, from file i on
SetErrorCalls(files, i) ==
    IF i > Len(files) THEN <<>>
    ELSE (IF CapReached(<<>>) THEN << CapMessage >>
          ELSE IF ~TypeAllowed(files[i]) THEN << TypeMessage(files[i].type) >>
          ELSE <<>>) \o SetErrorCalls(files, i + 1)

\* the error state once the handler has returned: the last setError call
\* wins, and the handler ends with setError(null)
ErrorAfterFileChange(files) ==
    LET calls == SetErrorCalls(files, 1) \o << Null >>
    IN  calls[Len(calls)]

Reading == LET RECURSIVE Sum(_)
               Sum(k) == IF k = 0 THEN 0 ELSE Cardinality(batches[k].reading) + Sum(k - 1)
           IN  Sum(Len(batches))

RemoveAt(s, k) == SubSeq(s, 1, k - 1) \o SubSeq(s, k + 1, Len(s))

\* event.target.files of a file input is never null: the early return of
\* the handler is not taken
handleFileChange(files) ==
    /\ batches' = IF Accepted(files) = {} THEN batches
                  ELSE Append(batches, [files |-> files, newImages |-> <<>>,
                                        reading |-> Accepted(files)])
    /\ error' = ErrorAfterFileChange(files)
    /\ UNCHANGED <<uploadedImages, backgroundPrompt, isLoading, generatedResult, runs>>

\* the record reader.onload pushes for a file
NewImage(file, now) ==
    [ id |-> <<file.name, "-", now>>, file |-> file.name,
      base64 |-> ReadAsDataURL(file), mimeType |-> file.type ]

\* newImages.length === files.length
BatchComplete(files, newImages) == Len(newImages) = Len(files)

\* A batch leaves the model when it was appended or no reader of it is left.
\* A read that fails (no onerror handler is set) is a reader that stays in
\* `reading` for ever.
Settle(b, batch) ==
    IF batch.reading = {} \/ BatchComplete(batch.files, batch.newImages)
    THEN RemoveAt(batches, b)
    ELSE [batches EXCEPT ![b] = batch]

\* reader.onload of file i of pending batch b
ReaderOnLoad(b, i, now) ==
    /\ b \in 1..Len(batches)
    /\ i \in batches[b].reading
    /\ LET old == batches[b]
           new == [old EXCEPT !.newImages = Append(@, NewImage(old.files[i], now)),
                              !.reading = @ \ {i}]
       IN  /\ uploadedImages' =
                IF BatchComplete(new.files, new.newImages)
                THEN uploadedImages \o new.newImages
                ELSE uploadedImages
           /\ batches' = Settle(b, new)
    /\ UNCHANGED <<backgroundPrompt, isLoading, error, generatedResult, runs>>

\* prev.filter(img => img.id !== id)
handleRemoveImage(id) ==
    /\ uploadedImages' = SelectSeq(uploadedImages, LAMBDA img : img.id # id)
    /\ UNCHANGED <<backgroundPrompt, isLoading, error, generatedResult, batches, runs>>

setBackgroundPrompt(value) ==
    /\ backgroundPrompt' = value
    /\ UNCHANGED <<uploadedImages, isLoading, error, generatedResult, batches, runs>>


\* the user picks files in the file input
SelectFiles(files, limit) ==
    /\ Len(uploadedImages) + Reading + Len(files) <= limit
    /\ Reading + Cardinality(Accepted(files)) <= MaxReaders
    /\ handleFileChange(files)

(***************************************************************************)
(* The external generation service: what ai.models.generateContent can do  *)
(* with a request.  A response part carries either inline data or text.    *)
(***************************************************************************)
ImagePart(mimeType, data) ==
    [inlineData |-> [mimeType |-> mimeType, data |-> data], text |-> Null]
TextPart(text) == [inlineData |-> NullObject, text |-> text]

PartPool ==
    { ImagePart("image/png", <<"A", "A", "A", "A">>),
      ImagePart("image/jpeg", <<"B">>),
      TextPart(<<"A fused scene.">>),
      TextPart(<<"x">>),
      TextPart(<<>>) }

Error(message) == [isError |-> TRUE, message |-> message]
NonError == [isError |-> FALSE, message |-> Null]

TypeErrorMessage == <<"Cannot read properties of undefined (reading 'parts')">>

\* generateContent throws (an Error, or something that is no Error), or
\* returns a response: without candidates, with an empty list of them, with
\* a candidate without content, or with a candidate whose content has parts
ResponsesWith(partLists) ==
    { [kind |-> "throw", value |-> v, candidates |-> <<>>] :
          v \in { Error(<<"503 Service Unavailable">>), NonError } }
    \cup { [kind |-> k, value |-> NullObject, candidates |-> <<>>] :
          k \in { "undefined", "return" } }
    \cup { [kind |-> "return", value |-> NullObject,
            candidates |-> << [content |-> NullObject] >>] }
    \cup { [kind |-> "return", value |-> NullObject,
            candidates |-> << [content |-> [parts |-> ps]] >>] : ps \in partLists }

\* every response of up to MaxParts parts
Responses == ResponsesWith(SeqsUpTo(PartPool, MaxParts))

\* one response of each kind: no part, text only, an image, an image and text
TypicalResponses ==
    ResponsesWith({ <<>>,
                    << TextPart(<<"A fused scene.">>) >>,
                    << ImagePart("image/png", <<"A", "A", "A", "A">>) >>,
                    << ImagePart("image/png", <<"A", "A", "A", "A">>),
                       TextPart(<<"A fused scene.">>) >> })

(***************************************************************************)
(* mergeImagesWithAI.                                                      *)
(***************************************************************************)
FullPrompt(prompt) ==
    <<"Merge the subjects ... The new background for this scene should be: \"">>
        \o prompt \o <<"\". Please ensure the lighting and shadows ...">>

InvalidBase64Message(name) == <<"Invalid base64 data for image ", name>>
NoImageMessage ==
    <<"The AI did not return an image. Please try adjusting your prompt or using different images.">>
FailedMessage(message) == <<"Failed to generate image: ">> \o message
UnknownMessage == <<"An unknown error occurred during image generation.">>

\* catch (error) { ... } : what mergeImagesWithAI throws for what it caught
Catch(thrown) ==
    IF thrown.isError THEN Error(FailedMessage(thrown.message)) ELSE Error(UnknownMessage)

\* images.map(img => ...): the inline parts, or what the callback throws
\* for the first image without base64 data
InlineParts(images) ==
    LET bad == { i \in 1..Len(images) : Falsy(Base64Data(images[i].base64)) }
    IN  IF bad # {}
        THEN [thrown |-> Error(InvalidBase64Message(
                  images[CHOOSE i \in bad : \A j \in bad : i <= j].file)),
              parts |-> <<>>]
        ELSE [thrown |-> NullObject,
              parts |-> [ i \in 1..Len(images) |->
                            ImagePart(images[i].mimeType, Base64Data(images[i].base64)) ]]

\* mergeImagesWithAI up to its await: the promise is rejected already, or
\* generateContent has been called with the request
StartMerge(images, prompt) ==
    LET inline == InlineParts(images)
    IN  IF inline.thrown # NullObject
        THEN [pc |-> "rejected", request |-> <<>>, thrown |-> Catch(inline.thrown)]
        ELSE [pc |-> "awaiting",
              request |-> << TextPart(FullPrompt(prompt)) >> \o inline.parts,
              thrown |-> NullObject]

RECURSIVE ScanPartsFirstWins(_, _)
\* ScanParts with the first image and the first text kept
ScanPartsFirstWins(parts, result) ==
    IF parts = <<>> THEN result
    ELSE LET part == Head(parts)
         IN  ScanPartsFirstWins(Tail(parts),
                 IF part.inlineData # NullObject
                 THEN (IF Falsy(result.image)
                       THEN [result EXCEPT !.image =
                                DataURI(part.inlineData.mimeType, part.inlineData.data)]
                       ELSE result)
                 ELSE IF ~Falsy(part.text) /\ Falsy(result.text)
                 THEN [result EXCEPT !.text = part.text]
                 ELSE result)

RECURSIVE ScanParts(_, _)
\* for (const part of parts) { if (part.inlineData) ... else if (part.text) ... }
ScanParts(parts, result) ==
    IF parts = <<>> THEN result
    ELSE LET part == Head(parts)
         IN  ScanParts(Tail(parts),
                 IF part.inlineData # NullObject
                 THEN [result EXCEPT !.image =
                          DataURI(part.inlineData.mimeType, part.inlineData.data)]
                 ELSE IF ~Falsy(part.text)
                 THEN [result EXCEPT !.text = part.text]
                 ELSE result)

\* ImageMissing with the test left out
ImageNeverMissing(result) == FALSE

\* !result.image
ImageMissing(result) == Falsy(result.image)

\* mergeImagesWithAI from its await on: the promise settles with a result
\* or with an Error
FinishMerge(response) ==
    IF response.kind = "throw"
    THEN [ok |-> FALSE, result |-> NullObject, thrown |-> Catch(response.value)]
    ELSE LET empty == [image |-> Null, text |-> Null]
             c == response.candidates
             scanned == response.kind = "return" /\ Len(c) > 0
         IN  IF scanned /\ c[1].content = NullObject
             THEN [ok |-> FALSE, result |-> NullObject,
                   thrown |-> Catch(Error(TypeErrorMessage))]
             ELSE LET result == IF scanned THEN ScanParts(c[1].content.parts, empty)
                                ELSE empty
                  IN  IF ImageMissing(result)
                      THEN [ok |-> FALSE, result |-> NullObject,
                            thrown |-> Catch(Error(NoImageMessage))]
                      ELSE [ok |-> TRUE, result |-> result, thrown |-> NullObject]

(***************************************************************************)
(* Submission.                                                             *)
(***************************************************************************)
ValidationMessage ==
    <<"Please upload at least 2 images and provide a background description.">>
UnexpectedMessage == <<"An unexpected error occurred.">>

\* SubmitRejected without the trim
SubmitRejectedUntrimmed == Len(uploadedImages) < MinImages \/ Falsy(backgroundPrompt)

\* uploadedImages.length < 2 || !backgroundPrompt.trim()
SubmitRejected == Len(uploadedImages) < MinImages \/ Falsy(Trim(backgroundPrompt))

\* uploadedImages.length >= 2 && backgroundPrompt.trim().length > 0
isValidToSubmit == Len(uploadedImages) >= MinImages /\ Len(Trim(backgroundPrompt)) > 0

\* ButtonDisabled without isLoading
ButtonDisabledByInputOnly == ~isValidToSubmit

\* disabled={!isValidToSubmit || isLoading}
ButtonDisabled == ~isValidToSubmit \/ isLoading

\* handleSubmit that also empties the collection when it dispatches
handleSubmitClearing ==
    IF SubmitRejected
    THEN /\ error' = ValidationMessage
         /\ UNCHANGED <<uploadedImages, backgroundPrompt, isLoading, generatedResult,
                        batches, runs>>
    ELSE /\ error' = Null
         /\ isLoading' = TRUE
         /\ generatedResult' = NullObject
         /\ uploadedImages' = <<>>
         /\ runs' = Append(runs, StartMerge(uploadedImages, backgroundPrompt))
         /\ UNCHANGED <<backgroundPrompt, batches>>

\* handleSubmit up to its await
handleSubmit ==
    IF SubmitRejected
    THEN /\ error' = ValidationMessage
         /\ UNCHANGED <<uploadedImages, backgroundPrompt, isLoading, generatedResult,
                        batches, runs>>
    ELSE /\ error' = Null
         /\ isLoading' = TRUE
         /\ generatedResult' = NullObject
         /\ runs' = Append(runs, StartMerge(uploadedImages, backgroundPrompt))
         /\ UNCHANGED <<uploadedImages, backgroundPrompt, batches>>

\* CaughtMessage of a catch block that swallows the error
CaughtMessageSwallowed(thrown) == Null

\* catch (err) { setError(...) }
CaughtMessage(thrown) == IF thrown.isError THEN thrown.message ELSE UnexpectedMessage

\* handleSubmit after its await: the promise of run k settled with outcome
Resume(k, outcome) ==
    /\ IF outcome.ok
       THEN generatedResult' = outcome.result /\ error' = error
       ELSE error' = CaughtMessage(outcome.thrown) /\ generatedResult' = generatedResult
    /\ isLoading' = FALSE
    /\ runs' = RemoveAt(runs, k)
    /\ UNCHANGED <<uploadedImages, backgroundPrompt, batches>>

\* the user clicks the Fuse button
ClickFuse == ~ButtonDisabled /\ handleSubmit

\* handleSubmit called as a function, whatever the button shows
InvokeHandleSubmit == Len(runs) < MaxRuns /\ handleSubmit

\* run k's promise was rejected before any request was made
MergeRejected(k) ==
    /\ k \in 1..Len(runs)
    /\ runs[k].pc = "rejected"
    /\ Resume(k, [ok |-> FALSE, result |-> NullObject, thrown |-> runs[k].thrown])

\* the service answers run k's request
ServiceResponds(k, response) ==
    /\ k \in 1..Len(runs)
    /\ runs[k].pc = "awaiting"
    /\ Resume(k, FinishMerge(response))

(***************************************************************************)
(* Specifications.                                                         *)
(***************************************************************************)
Init ==
    /\ uploadedImages = <<>>
    /\ backgroundPrompt = <<>>
    /\ isLoading = FALSE
    /\ error = Null
    /\ generatedResult = NullObject
    /\ batches = <<>>
    /\ runs = <<>>

Reads == \E b \in 1..Len(batches), i \in 1..MaxBatchLen, now \in Times : ReaderOnLoad(b, i, now)
Removes == \E k \in 1..Len(uploadedImages) : handleRemoveImage(uploadedImages[k].id)
Types == \E value \in Prompts : setBackgroundPrompt(value)
Settles(responses) ==
    \/ \E k \in 1..Len(runs) : MergeRejected(k)
    \/ \E k \in 1..Len(runs), response \in responses : ServiceResponds(k, response)

\* image intake alone
IntakeNext ==
    \/ \E files \in FileLists : SelectFiles(files, IntakeLimit)
    \/ Reads
    \/ Removes
    \/ Types

IntakeSpec == Init /\ [][IntakeNext]_vars

\* the component as the user drives it
Next ==
    \/ \E files \in FileLists : SelectFiles(files, AppLimit)
    \/ Reads
    \/ Removes
    \/ Types
    \/ ClickFuse
    \/ Settles(TypicalResponses)

Spec == Init /\ [][Next]_vars

FairNext ==
    \/ \E files \in FileLists : SelectFiles(files, FairLimit)
    \/ Reads
    \/ Removes
    \/ Types
    \/ ClickFuse
    \/ Settles(TypicalResponses)

\* a settled promise resumes its awaiter, and the external call returns or throws
FairSpec == Init /\ [][FairNext]_vars /\ WF_vars(Settles(TypicalResponses))

\* The collections intake can have stored when the user turns to the prompt
\* and the Fuse button: every list of up to AppLimit readable files.
Stored ==
    { [ k \in 1..Len(files) |-> NewImage(files[k], now) ] :
        files \in SeqsUpTo({ f \in Files : TypeAllowed(f) }, AppLimit), now \in Times }

SubmitInit ==
    /\ uploadedImages \in Stored
    /\ backgroundPrompt = <<>>
    /\ isLoading = FALSE
    /\ error = Null
    /\ generatedResult = NullObject
    /\ batches = <<>>
    /\ runs = <<>>

\* submission over every response of the service
ParseNext ==
    \/ Removes
    \/ Types
    \/ ClickFuse
    \/ Settles(Responses)

ParseSpec == SubmitInit /\ [][ParseNext]_vars

\* submission with handleSubmit called directly
HandlerNext ==
    \/ Removes
    \/ Types
    \/ InvokeHandleSubmit
    \/ Settles(TypicalResponses)

HandlerSpec == SubmitInit /\ [][HandlerNext]_vars
(***************************************************************************)
(* Properties.                                                             *)
(***************************************************************************)
Max(S) == CHOOSE x \in S : \A y \in S : y <= x

\* C1: the collection never holds more than 5 records.
C1_AtMostFiveImages == Len(uploadedImages) <= MaxUpload

\* C2: when the last outstanding read of a batch completes, every file of
\* the batch whose read completed is appended to the collection, whatever
\* happened to the other files of the batch.
C2_ReadFilesAreAppended ==
    [][\A b \in 1..Len(batches), i \in 1..MaxBatchLen, now \in Times :
          (ReaderOnLoad(b, i, now) /\ batches[b].reading = {i})
              => uploadedImages' = uploadedImages
                     \o Append(batches[b].newImages, NewImage(batches[b].files[i], now))]_vars

\* C3: the records a batch appends follow the order in which its files were
\* selected, and the records stored before keep their places.
C3_AppendedInSelectionOrder ==
    [][\A b \in 1..Len(batches), i \in 1..MaxBatchLen, now \in Times :
          (ReaderOnLoad(b, i, now) /\ Len(uploadedImages') > Len(uploadedImages))
              => LET files == batches[b].files
                     old == Len(uploadedImages)
                 IN  /\ Len(uploadedImages') = old + Len(files)
                     /\ SubSeq(uploadedImages', 1, old) = uploadedImages
                     /\ \A k \in 1..Len(files) :
                            uploadedImages'[old + k].file = files[k].name]_vars

\* C4: once handleFileChange has returned from a batch of which it rejected
\* a file, the error state names the cap or the unsupported type.
C4_RejectionIsReported ==
    [][\A files \in FileLists :
          handleFileChange(files) =>
              LET overCap == files # <<>> /\ Len(uploadedImages) >= MaxUpload
                  badTypes == { files[i].type : i \in { j \in 1..Len(files) :
                                    files[j].type \notin allowedTypes } }
              IN  /\ overCap => error' = CapMessage
                  /\ (~overCap /\ badTypes # {}) =>
                         \E t \in badTypes : error' = TypeMessage(t)]_vars

\* C5: a handleSubmit run with fewer than 2 images or a prompt that is blank
\* after trimming ends with the validation message and starts no request;
\* every request made carries at least 2 images and a non-blank prompt.
C5_InvalidRunMakesNoCall ==
    /\ [](\A k \in 1..Len(runs) : runs[k].pc = "awaiting" =>
            LET request == runs[k].request
                text == request[1].text
            IN  /\ Cardinality({ p \in 1..Len(request) :
                                   request[p].inlineData # NullObject }) >= 2
                /\ Trim(SubSeq(text, 2, Len(text) - 1)) # <<>>)
    /\ [][(handleSubmit /\ (Len(uploadedImages) < 2 \/ Trim(backgroundPrompt) = <<>>))
              => (error' = ValidationMessage /\ runs' = runs /\ isLoading' = isLoading)]_vars

C5_Witness ==
    /\ error = ValidationMessage
    /\ runs = <<>>
    /\ Len(uploadedImages) >= 2
    /\ backgroundPrompt = <<" ">>

\* C6: a delivered result has for image the data URI of the last part with
\* inline data and for text the text of the last part with text, unset when
\* there is none.
C6_LastPartWins ==
    [][(generatedResult' # NullObject /\ Len(runs') < Len(runs)) =>
          \A k \in 1..Len(runs), response \in Responses :
              ServiceResponds(k, response) =>
                  LET parts == response.candidates[1].content.parts
                      images == { p \in 1..Len(parts) : parts[p].inlineData # NullObject }
                      texts == { p \in 1..Len(parts) :
                                   parts[p].inlineData = NullObject /\ parts[p].text # <<>> }
                      last == parts[Max(images)].inlineData
                  IN  /\ images # {}
                      /\ generatedResult'.image =
                             <<"data:", last.mimeType, ";base64", ",">> \o last.data
                      /\ generatedResult'.text =
                             IF texts = {} THEN Null ELSE parts[Max(texts)].text]_vars

C6_Witness ==
    /\ generatedResult # NullObject
    /\ generatedResult.image = <<"data:", "image/jpeg", ";base64", ",", "B">>
    /\ generatedResult.text = <<"x">>

\* C7: a delivered result has its image set; a response without inline
\* image data ends the run with an error message and no result.
C7_ResultHasImage ==
    /\ [](generatedResult # NullObject =>
            (generatedResult.image # Null /\ generatedResult.image # <<>>))
    /\ [][Len(runs') < Len(runs) =>
              \A k \in 1..Len(runs), response \in TypicalResponses :
                  (/\ response.kind # "throw"
                   /\ \A c \in 1..Len(response.candidates) :
                         /\ response.candidates[c].content # NullObject
                         /\ \A p \in 1..Len(response.candidates[c].content.parts) :
                               response.candidates[c].content.parts[p].inlineData
                                   = NullObject
                   /\ ServiceResponds(k, response))
                      => (generatedResult' = NullObject
                          /\ error' = FailedMessage(NoImageMessage))]_vars

C7_Witness ==
    /\ ~isLoading
    /\ generatedResult = NullObject
    /\ error = FailedMessage(NoImageMessage)

\* C8: at most one submission is suspended at its await, and only while
\* isLoading is set.
C8_AtMostOneInFlight == Len(runs) <= 1 /\ (runs # <<>> => isLoading)

C8_Witness ==
    /\ Len(runs) = 1
    /\ runs[1].pc = "awaiting"
    /\ batches # <<>>

\* C9 as stated: a dispatching handleSubmit empties the collection.
C9_CollectionDiscarded == [][(~isLoading /\ isLoading') => uploadedImages' = <<>>]_vars

\* C9 as amended: a dispatching handleSubmit leaves the collection as it
\* is; what it discards is the previous result and error.
C9_CollectionKept ==
    [][(~isLoading /\ isLoading') =>
          (/\ uploadedImages' = uploadedImages
           /\ generatedResult' = NullObject
           /\ error' = Null)]_vars

C9_Witness ==
    /\ isLoading
    /\ Len(uploadedImages) >= MinImages
    /\ runs # <<>>

\* C10: a dispatched submission settles; when it does, exactly one of
\* generatedResult and error is set and no request is left or made again.
C10_SubmissionSettles ==
    /\ isLoading ~> ~isLoading
    /\ [][(isLoading /\ ~isLoading') =>
              (/\ (generatedResult' # NullObject) # (error' # Null)
               /\ runs' = <<>>)]_vars
    /\ [][runs # <<>> => (runs' = runs \/ runs' = <<>>)]_vars

C10_Witness ==
    /\ ~isLoading
    /\ runs = <<>>
    /\ generatedResult = NullObject
    /\ error = FailedMessage(<<"503 Service Unavailable">>)
====
